---- MODULE Spec2Model ----
(***************************************************************************)
(* GoMart storefront: the cart controller of the home page (page.tsx) and  *)
(* the stock adjustment endpoint PATCH /api/products/[id]/stock.           *)
(*                                                                         *)
(* A browser tab holds React state (cartItems, featuredProducts,           *)
(* productQuantities) and shares the localStorage entry "gomart:cart" with *)
(* the other tabs of its browser.  Every cart handler issues PATCH         *)
(* requests; the endpoint reads the stock (findUnique) and writes it       *)
(* (update) in two separate database round trips.                          *)
(***************************************************************************)
EXTENDS Integers, Sequences, FiniteSets, TLC

\* ------------------------------------------------------------------ bounds
MaxStock == 2          \* largest catalog-time stock of a product
MaxDelta == 1          \* largest |delta| handed to updateCartQuantity / PATCH
MaxCalls == 2          \* handler invocations in all when two tabs interleave
ExampleStock == 10     \* the worked example: stock at the start
ExampleQuantity == 3   \* the worked example: quantity added
ExampleDelta == 2      \* the worked example: delta of updateCartQuantity

\* --------------------------------------------------------------- universes
Products    == {"A", "B"}          \* rows of the product table
UnknownId   == "Z"                 \* an id with no row in the product table
Ids         == Products \cup {UnknownId}
Tabs        == {"t1", "t2"}        \* browser tabs showing the home page
Stores      == {"s1", "s2"}        \* localStorage areas (one per browser)
ApiClients  == {"x1", "x2"}             \* any other caller of the PATCH endpoint
\* the request of a second invocation in a tab has an owner of its own
Again(t)    == IF t = "t1" THEN "t1'" ELSE "t2'"
Owners      == Tabs \cup ApiClients \cup {Again(t) : t \in Tabs}
Deltas      == (-MaxDelta .. MaxDelta)

VARIABLES
    stock,              \* Product.stockQuantity column, per product
    stock0,             \* the stock at catalog time (never changes)
    ls,                 \* localStorage["gomart:cart"] of every storage area
    storeOf,            \* the storage area each tab reads and writes
    cartItems,          \* React state cartItems of every tab
    known,              \* featuredProducts[..].stockQuantity of every tab
    productQuantities,  \* React state productQuantities of every tab
    pendingEv,          \* a storage event is queued for the tab
    call,               \* the cart handler invocation of every tab
    req,                \* PATCH requests, by <<owner, product id>>
    cleared,            \* clearCart has been invoked (history)
    budget,             \* handler invocations that may still start
    vendors,            \* rows of the vendor table
    login,              \* vendor login requests, by caller
    featured,           \* ids of React state featuredProducts of every tab
    overlap,            \* a second addToCart invocation of a tab, started
                        \* while the first one is suspended
    user,               \* localStorage["gomart:user"] of every caller's browser
    dash,               \* the vendor dashboard page of every caller
    totals              \* the memoized cartTotals of every tab

\* the storefront: the home page and the stock endpoint
storefront == <<stock, stock0, ls, storeOf, cartItems, known,
                productQuantities, pendingEv, call, req, cleared, budget>>

\* what neither the handlers of the storefront below nor the vendor login
\* touch
elsewhere == <<featured, overlap, dash, totals>>

\* what the handlers of the storefront leave alone
apart == <<vendors, login, user, elsewhere>>

vars == <<stock, stock0, ls, storeOf, cartItems, known, productQuantities,
          pendingEv, call, req, cleared, budget, vendors, login,
          featured, overlap, user, dash, totals>>

\* ----------------------------------------------------------------- helpers
Min(a, b) == IF a < b THEN a ELSE b
Max(a, b) == IF a > b THEN a ELSE b

\* CartItem (page.tsx 33-40); price, name and image are constants of the product
CartItem(p, q, s) == [productId |-> p, quantity |-> q, stockQuantity |-> s]

\* Array.prototype.findIndex, 1-based; 0 when there is none
FindIndex(items, p) ==
    IF \E i \in 1..Len(items) : items[i].productId = p
    THEN CHOOSE i \in 1..Len(items) :
            /\ items[i].productId = p
            /\ \A j \in 1..(i-1) : items[j].productId # p
    ELSE 0

\* a faulty variant, for comparison: the filter drops every line item
FilterOutAll(items, p) == <<>>

\* Array.prototype.filter(cartItem => cartItem.productId !== p)
RECURSIVE FilterOut(_, _)
FilterOut(items, p) ==
    IF items = <<>> THEN <<>>
    ELSE IF Head(items).productId = p THEN FilterOut(Tail(items), p)
         ELSE <<Head(items)>> \o FilterOut(Tail(items), p)

\* total quantity held for product p in a cart
RECURSIVE Held(_, _)
Held(items, p) ==
    IF items = <<>> THEN 0
    ELSE (IF Head(items).productId = p THEN Head(items).quantity ELSE 0)
         + Held(Tail(items), p)

ItemIds(items) == {items[i].productId : i \in 1..Len(items)}

\* readCart (page.tsx 44-53): the parsed entry of the tab's storage area
readCart(t) == ls[storeOf[t]]

\* writeCart (page.tsx 55-59): setItem, then a storage event dispatched in the
\* writing window, whose listener (handleStorage, 106-111) reloads cartItems;
\* the browser queues a storage event for every other tab of the same area
\* when the stored value changed.
writeCart(t, items) ==
    /\ ls' = [ls EXCEPT ![storeOf[t]] = items]
    /\ cartItems' = [cartItems EXCEPT ![t] = items]
    /\ pendingEv' = [u \in Tabs |->
                       IF u # t /\ storeOf[u] = storeOf[t] /\ items # ls[storeOf[t]]
                       THEN TRUE ELSE pendingEv[u]]

\* -------------------------------------------------------- request records
\* body: "int" when quantityChange is an integer d, "null" when it is
\* undefined or null, "true" when it is the boolean true, "text" when it is
\* a string that is no number
NoReq == [st |-> "none", body |-> "int", d |-> 0, cur |-> 0, status |-> 0,
          kind |-> "none", previousStock |-> 0, newStock |-> 0]

Sent(d) == [NoReq EXCEPT !.st = "sent", !.d = d]

SentNoQuantity == [NoReq EXCEPT !.st = "sent", !.body = "null"]

\* bodies whose quantityChange is present and is no integer
InvalidBodies == {"true", "text"}

\* what the + of PATCH 350 adds for such a value when the result is a
\* number: true counts as 1 (a string makes the sum a string)
Coerced(body) == IF body = "true" THEN 1 ELSE 0

SentInvalid(body) ==
    [NoReq EXCEPT !.st = "sent", !.body = body, !.d = Coerced(body)]

Response(r, status, kind, prev, new) ==
    [r EXCEPT !.st = "resp", !.status = status, !.kind = kind,
              !.previousStock = prev, !.newStock = new]

\* Bounds of the model, not of the program.  An increase of stock is
\* requested, and read by the endpoint, only while it keeps the stock within
\* the catalog-time stock; a handler starts only while the budget of handler
\* invocations lasts (a negative budget is no limit).
WithinCap(id, d) ==
    \/ d <= 0
    \/ id \in Products /\ stock[id] + d <= stock0[id]

StartWithinBudget ==
    /\ budget # 0
    /\ budget' = IF budget > 0 THEN budget - 1 ELSE budget

\* page.tsx 116-122 before any cart is loaded: cartTotals of the empty cart
NoTotals == [subtotal |-> 0, shipping |-> 0, total |-> 0, totalItems |-> 0]

\* ------------------------------------------------------------ call records
Idle == [pc |-> "idle", op |-> "none", product |-> "-", quantityChange |-> 0,
         oldQuantity |-> 0, newQuantity |-> 0, updated |-> <<>>,
         items |-> <<>>, failed |-> {}, settled |-> {},
         requested |-> FALSE, ok |-> FALSE, toasts |-> {},
         message |-> "", fetched |-> FALSE,
         stockBefore |-> [p \in Products |-> 0], cartBefore |-> <<>>]

\* a handler that starts in tab t: what it sees before its first statement
Started(t, op, p) ==
    [Idle EXCEPT !.op = op, !.product = p,
                 !.stockBefore = stock, !.cartBefore = readCart(t)]

\* ---------------------------------------------------------------- endpoint
\* a faulty variant, for comparison: the change is subtracted
NewStockQuantitySubtracted(cur, d) == cur - d

\* PATCH, 349-350
NewStockQuantity(cur, d) == cur + d

\* a faulty variant, for comparison: the negative-stock check is missing
InsufficientNever(new) == FALSE

\* a faulty variant, for comparison: the negative-stock check is off by one
InsufficientOffByOne(new) == new < -1

\* PATCH, 352-365
Insufficient(new) == new < 0

\* PATCH, 315-365: body validation, findUnique, the negative-stock check
\* (a string plus the stock is a string, and no string compares below 0)
ServerRead(o, id) ==
    LET r == req[<<o, id>>] IN
    /\ r.st = "sent"
    /\ WithinCap(id, r.d)
    /\ req' = [req EXCEPT ![<<o, id>>] =
          IF r.body = "null"
          THEN Response(r, 400, "validation", 0, 0)
          ELSE IF id \notin Products
          THEN Response(r, 404, "notfound", 0, 0)
          ELSE IF r.body # "text" /\ Insufficient(NewStockQuantity(stock[id], r.d))
          THEN Response([r EXCEPT !.cur = stock[id]], 400, "insufficient", 0, 0)
          ELSE [r EXCEPT !.st = "read", !.cur = stock[id]]]
    /\ UNCHANGED <<stock, stock0, ls, storeOf, cartItems, known,
                   productQuantities, pendingEv, call, cleared, budget>>
    /\ UNCHANGED apart

\* a faulty variant, for comparison: the write re-reads the stock and adds
\* the change to it in one step (an atomic increment)
ServerWriteAtomic(o, id) ==
    LET r == req[<<o, id>>]
        new == NewStockQuantity(stock[id], r.d) IN
    /\ r.st = "read"
    /\ new >= 0
    /\ stock' = [stock EXCEPT ![id] = new]
    /\ req' = [req EXCEPT ![<<o, id>>] = Response(r, 200, "ok", stock[id], new)]
    /\ UNCHANGED <<stock0, ls, storeOf, cartItems, known,
                   productQuantities, pendingEv, call, cleared, budget>>
    /\ UNCHANGED apart

\* PATCH, 367-389: prisma.product.update and the success response; the
\* column is an integer, so a string is not stored (update throws)
ServerWrite(o, id) ==
    LET r == req[<<o, id>>]
        new == NewStockQuantity(r.cur, r.d) IN
    /\ r.st = "read"
    /\ r.body # "text"
    /\ stock' = [stock EXCEPT ![id] = new]
    /\ req' = [req EXCEPT ![<<o, id>>] = Response(r, 200, "ok", r.cur, new)]
    /\ UNCHANGED <<stock0, ls, storeOf, cartItems, known,
                   productQuantities, pendingEv, call, cleared, budget>>
    /\ UNCHANGED apart

\* PATCH, 390-399: a database call throws; nothing is written
ServerFault(o, id) ==
    LET r == req[<<o, id>>] IN
    /\ r.st \in {"sent", "read"}
    /\ req' = [req EXCEPT ![<<o, id>>] = Response(r, 500, "fault", 0, 0)]
    /\ UNCHANGED <<stock, stock0, ls, storeOf, cartItems, known,
                   productQuantities, pendingEv, call, cleared, budget>>
    /\ UNCHANGED apart

\* any other caller of the endpoint sends { quantityChange: d }; a caller
\* has one request outstanding at a time
ApiPatch(x, id, d) ==
    /\ \A i \in Ids : req[<<x, i>>].st = "none"
    /\ WithinCap(id, d)
    /\ req' = [req EXCEPT ![<<x, id>>] = Sent(d)]
    /\ UNCHANGED <<stock, stock0, ls, storeOf, cartItems, known,
                   productQuantities, pendingEv, call, cleared, budget>>
    /\ UNCHANGED apart

\* ... or a body without quantityChange
ApiPatchNoQuantity(x, id) ==
    /\ \A i \in Ids : req[<<x, i>>].st = "none"
    /\ req' = [req EXCEPT ![<<x, id>>] = SentNoQuantity]
    /\ UNCHANGED <<stock, stock0, ls, storeOf, cartItems, known,
                   productQuantities, pendingEv, call, cleared, budget>>
    /\ UNCHANGED apart

\* ... or a quantityChange that is no integer
ApiPatchInvalid(x, id, body) ==
    /\ \A i \in Ids : req[<<x, i>>].st = "none"
    /\ WithinCap(id, Coerced(body))
    /\ req' = [req EXCEPT ![<<x, id>>] = SentInvalid(body)]
    /\ UNCHANGED <<stock, stock0, ls, storeOf, cartItems, known,
                   productQuantities, pendingEv, call, cleared, budget>>
    /\ UNCHANGED apart

\* ... and takes the response
ApiReceive(x, id) ==
    /\ req[<<x, id>>].st = "resp"
    /\ req' = [req EXCEPT ![<<x, id>>] = NoReq]
    /\ UNCHANGED <<stock, stock0, ls, storeOf, cartItems, known,
                   productQuantities, pendingEv, call, cleared, budget>>
    /\ UNCHANGED apart

\* ------------------------------------------------------- page: selectors
\* maxQuantity = product?.stockQuantity || 1 (page.tsx 128, 136)
MaxQuantity(t, p) ==
    IF p \notin featured[t] \/ known[t][p] = 0 THEN 1 ELSE known[t][p]

\* Math.min(Math.max(q, 1), maxQuantity) (page.tsx 129, 137)
ClampQuantity(t, p, q) == Min(Max(q, 1), MaxQuantity(t, p))

\* updateQuantity (page.tsx 124-132)
updateQuantity(t, p, delta) ==
    /\ productQuantities' = [productQuantities EXCEPT ![t][p] =
                               ClampQuantity(t, p, productQuantities[t][p] + delta)]
    /\ UNCHANGED <<stock, stock0, ls, storeOf, cartItems, known,
                   pendingEv, call, req, cleared, budget>>
    /\ UNCHANGED apart

\* setQuantity (page.tsx 134-139)
setQuantity(t, p, quantity) ==
    /\ productQuantities' = [productQuantities EXCEPT ![t][p] =
                               ClampQuantity(t, p, quantity)]
    /\ UNCHANGED <<stock, stock0, ls, storeOf, cartItems, known,
                   pendingEv, call, req, cleared, budget>>
    /\ UNCHANGED apart

\* the mount effect (page.tsx 69-114): the page is (re)loaded in a tab that
\* runs no handler; featured products and the cart are read afresh
loadData(t) ==
    /\ call[t].pc # "await"
    /\ known' = [known EXCEPT ![t] = stock]
    /\ productQuantities' = [productQuantities EXCEPT ![t] = [p \in Products |-> 1]]
    /\ cartItems' = [cartItems EXCEPT ![t] = readCart(t)]
    /\ pendingEv' = [pendingEv EXCEPT ![t] = FALSE]
    /\ call' = [call EXCEPT ![t] = Idle]
    /\ UNCHANGED <<stock, stock0, ls, storeOf, req, cleared, budget>>
    /\ UNCHANGED apart

\* a faulty variant, for comparison: the listener takes the event and does
\* not reload the cart
handleStorageIgnores(t) ==
    /\ pendingEv[t]
    /\ pendingEv' = [pendingEv EXCEPT ![t] = FALSE]
    /\ UNCHANGED <<stock, stock0, ls, storeOf, cartItems, known,
                   productQuantities, call, req, cleared, budget>>
    /\ UNCHANGED apart

\* handleStorage (page.tsx 106-111): a queued storage event is delivered
handleStorage(t) ==
    /\ pendingEv[t]
    /\ cartItems' = [cartItems EXCEPT ![t] = readCart(t)]
    /\ pendingEv' = [pendingEv EXCEPT ![t] = FALSE]
    /\ UNCHANGED <<stock, stock0, ls, storeOf, known, productQuantities,
                   call, req, cleared, budget>>
    /\ UNCHANGED apart

\* ------------------------------------------------------- page: addToCart
\* a handler that has returned: what it did is kept, what it had captured
\* (its closure) is dropped
Returned(c, ok, toasts) ==
    [Idle EXCEPT !.pc = "done", !.op = c.op, !.product = c.product,
                 !.requested = c.requested, !.ok = ok, !.toasts = toasts]

\* a handler that returns after toast.error, before any request
Rejected(c) == Returned(c, FALSE, {"error"})

\* the handler is suspended in await updateProductStock(p, change)
Awaiting(c, change, old, new, updated, toasts) ==
    [c EXCEPT !.pc = "await", !.requested = TRUE,
              !.quantityChange = change, !.oldQuantity = old,
              !.newQuantity = new, !.updated = updated, !.toasts = toasts]

\* page.tsx 195-203: the two checks against the stock the page knows
AddRefused(quantity, stockQuantity) ==
    quantity > stockQuantity \/ stockQuantity <= 0

\* a faulty variant, for comparison: a new line item whatever the cart holds
UpdatedCartAppended(currentCart, p, quantity, stockQuantity) ==
    Append(currentCart, CartItem(p, quantity, stockQuantity - quantity))

\* page.tsx 205-240: the cart addToCart is going to write
UpdatedCart(currentCart, p, quantity, stockQuantity) ==
    LET idx == FindIndex(currentCart, p) IN
    IF idx > 0
    THEN [currentCart EXCEPT ![idx] =
             [@ EXCEPT !.quantity = @ + quantity,
                       !.stockQuantity = stockQuantity - quantity]]
    ELSE Append(currentCart, CartItem(p, quantity, stockQuantity - quantity))

\* addToCart (page.tsx 192-240), up to the await: the invocation as it
\* returns after toast.error, or as it is suspended in updateProductStock
AddCall(t, p) ==
    LET quantity      == productQuantities[t][p]
        stockQuantity == known[t][p]
        currentCart   == readCart(t)
        idx           == FindIndex(currentCart, p)
        old           == IF idx > 0 THEN currentCart[idx].quantity ELSE 0
        newQuantity   == old + quantity
        updatedCart   == UpdatedCart(currentCart, p, quantity, stockQuantity)
        c             == Started(t, "add", p)
    IN
    IF AddRefused(quantity, stockQuantity) \/ (idx > 0 /\ newQuantity > stockQuantity)
    THEN Rejected([c EXCEPT !.quantityChange = -quantity])
    ELSE Awaiting(c, -quantity, old, newQuantity, updatedCart, {"success"})

\* addToCart (page.tsx 192-244), up to the await
addToCart(t, p) ==
    /\ call[t].pc # "await"
    /\ p \in featured[t]
    /\ StartWithinBudget
    /\ call' = [call EXCEPT ![t] = AddCall(t, p)]
    /\ req' = IF AddCall(t, p).pc = "await"
              THEN [req EXCEPT ![<<t, p>>] = Sent(AddCall(t, p).quantityChange)]
              ELSE req
    /\ UNCHANGED <<stock, stock0, ls, storeOf, cartItems, known,
                   productQuantities, pendingEv, cleared>>
    /\ UNCHANGED apart

\* addToCart (page.tsx 192-244) invoked again, for any product, while the
\* first invocation of the tab is suspended in updateProductStock: the
\* button stays enabled (page.tsx 659-666) and nothing has re-rendered
addToCartAgain(t, p) ==
    /\ call[t].pc = "await"
    /\ call[t].op = "add"
    /\ overlap[t].pc # "await"
    /\ p \in featured[t]
    /\ StartWithinBudget
    /\ overlap' = [overlap EXCEPT ![t] = AddCall(t, p)]
    /\ req' = IF AddCall(t, p).pc = "await"
              THEN [req EXCEPT ![<<Again(t), p>>] = Sent(AddCall(t, p).quantityChange)]
              ELSE req
    /\ UNCHANGED <<stock, stock0, ls, storeOf, cartItems, known,
                   productQuantities, pendingEv, call, cleared>>
    /\ UNCHANGED <<vendors, login, user, featured, dash, totals>>

\* ------------------------------------------------ page: updateCartQuantity
\* a faulty variant, for comparison: no floor of one and no ceiling
NewQuantityUnclamped(oldQuantity, delta, availableStock) ==
    oldQuantity + delta

\* page.tsx 275-289: the new quantity of the line item
NewQuantity(oldQuantity, delta, availableStock) ==
    IF delta > 0
    THEN Min(oldQuantity + delta, oldQuantity + availableStock)
    ELSE Max(oldQuantity + delta, 1)

\* a faulty variant, for comparison: one unit whatever the delta
StockChangeUnit(oldQuantity, newQuantity, delta) ==
    IF delta > 0 THEN 1 ELSE -1

\* page.tsx 300-303: the change of stock that is requested
StockChange(oldQuantity, newQuantity, delta) == delta

\* updateCartQuantity from currentProduct on (page.tsx 268-303), up to the
\* await: the validation, the cart to write and the request
UpdateFrom(t, p, delta) ==
    LET idx            == FindIndex(cartItems[t], p)
        oldQuantity    == cartItems[t][idx].quantity
        availableStock == known[t][p]
        newQuantity    == NewQuantity(oldQuantity, delta, availableStock)
        updated        ==
            [i \in 1..Len(cartItems[t]) |->
                IF cartItems[t][i].productId # p THEN cartItems[t][i]
                ELSE [cartItems[t][i] EXCEPT
                        !.quantity = newQuantity,
                        !.stockQuantity = availableStock - (newQuantity - oldQuantity)]]
        stockChange    == StockChange(oldQuantity, newQuantity, delta)
        c              == Started(t, "update", p)
    IN
    /\ WithinCap(p, -stockChange)
    /\ IF delta > 0 /\ availableStock < delta
       THEN /\ call' = [call EXCEPT ![t] =
                   Rejected([c EXCEPT !.quantityChange = -stockChange,
                                      !.oldQuantity = oldQuantity,
                                      !.newQuantity = oldQuantity])]
            /\ req' = req
       ELSE /\ call' = [call EXCEPT ![t] =
                   Awaiting(c, -stockChange, oldQuantity, newQuantity, updated, {})]
            /\ req' = [req EXCEPT ![<<t, p>>] = Sent(-stockChange)]

\* updateCartQuantity (page.tsx 253-303), up to its first await: the await
\* of updateProductStock, or the one of refreshProduct when the product is
\* not in featuredProducts
updateCartQuantity(t, p, delta) ==
    /\ call[t].pc # "await"
    /\ FindIndex(cartItems[t], p) > 0
    /\ StartWithinBudget
    /\ IF p \in featured[t]
       THEN UpdateFrom(t, p, delta)
       ELSE /\ call' = [call EXCEPT ![t] =
                   [Started(t, "update", p) EXCEPT
                       !.pc = "await", !.op = "refresh", !.quantityChange = delta]]
            /\ req' = req
    /\ UNCHANGED <<stock, stock0, ls, storeOf, cartItems, known,
                   productQuantities, pendingEv, cleared>>
    /\ UNCHANGED apart

\* a faulty variant, for comparison: the product is found when the fetch
\* returned it
RefreshedProductFetched(t, p, fetched) == fetched

\* page.tsx 262 after refreshProduct (172-190): featuredProducts.find in the
\* list the handler captured when it was invoked; refreshProduct maps the
\* products of the list (176-182) and adds none, whatever was fetched
RefreshedProduct(t, p, fetched) == p \in featured[t]

\* updateCartQuantity once refreshProduct has returned (page.tsx 261-270);
\* fetched: the request was answered with the product
refreshProduct(t, fetched) ==
    LET c == call[t]
        p == c.product IN
    /\ c.pc = "await"
    /\ c.op = "refresh"
    /\ IF RefreshedProduct(t, p, fetched)
       THEN UpdateFrom(t, p, c.quantityChange)
       ELSE /\ call' = [call EXCEPT ![t] =
                   [Returned([c EXCEPT !.op = "update"], FALSE, {"error"}) EXCEPT
                       !.message = "Product not found", !.fetched = fetched]]
            /\ req' = req
    /\ UNCHANGED <<stock, stock0, ls, storeOf, cartItems, known,
                   productQuantities, pendingEv, cleared, budget>>
    /\ UNCHANGED apart

\* ---------------------------------------------------- page: removeFromCart
\* removeFromCart (page.tsx 311-320), up to the await
removeFromCart(t, p) ==
    LET idx               == FindIndex(cartItems[t], p)
        quantityToRestore == cartItems[t][idx].quantity
        updated           == FilterOut(cartItems[t], p)
        c                 == Started(t, "remove", p)
    IN
    /\ call[t].pc # "await"
    /\ idx > 0
    /\ StartWithinBudget
    /\ WithinCap(p, quantityToRestore)
    /\ call' = [call EXCEPT ![t] =
            Awaiting(c, quantityToRestore, quantityToRestore, 0, updated, {})]
    /\ req' = [req EXCEPT ![<<t, p>>] = Sent(quantityToRestore)]
    /\ UNCHANGED <<stock, stock0, ls, storeOf, cartItems, known,
                   productQuantities, pendingEv, cleared>>
    /\ UNCHANGED apart

\* updateProductStock (page.tsx 149-165) after the response: a response that
\* is ok stores result.data.newStock in featuredProducts
KnownAfter(t, p, r) ==
    IF r.status = 200 /\ p \in featured[t]
    THEN [known EXCEPT ![t][p] = r.newStock]
    ELSE known

\* a faulty variant, for comparison: the catch block shows no toast
ToastsAfterSilent(c, success) ==
    IF success
    THEN c.toasts \cup (IF c.op = "remove" THEN {"success"} ELSE {})
    ELSE c.toasts

\* the toasts of the code after the await (page.tsx 245-250, 304-308, 321-326)
ToastsAfter(c, success) ==
    IF success
    THEN c.toasts \cup (IF c.op = "remove" THEN {"success"} ELSE {})
    ELSE c.toasts \cup {"error"}

\* a faulty variant, for comparison: the cart is written outside the try block
WritesCartAlways(r) == TRUE

\* the cart is written when the awaited adjustment did not throw
WritesCart(r) == r.status = 200

\* a faulty variant, for comparison: a failed adjustment is sent again
completeRetrying(t) ==
    LET c == call[t]
        p == c.product
        r == req[<<t, p>>] IN
    /\ c.pc = "await"
    /\ c.op \in {"add", "update", "remove"}
    /\ r.st = "resp"
    /\ known' = KnownAfter(t, p, r)
    /\ IF r.status = 200
       THEN /\ req' = [req EXCEPT ![<<t, p>>] = NoReq]
            /\ call' = [call EXCEPT ![t] = Returned(c, TRUE, ToastsAfter(c, TRUE))]
            /\ writeCart(t, c.updated)
       ELSE /\ req' = [req EXCEPT ![<<t, p>>] = Sent(r.d)]
            /\ UNCHANGED <<call, ls, cartItems, pendingEv>>
    /\ UNCHANGED <<stock, stock0, storeOf, productQuantities, cleared, budget>>
    /\ UNCHANGED apart

\* the continuation of addToCart, updateCartQuantity and removeFromCart once
\* the response is there (page.tsx 149-169, then 245-250 / 304-308 / 321-326)
complete(t) ==
    LET c == call[t]
        p == c.product
        r == req[<<t, p>>] IN
    /\ c.pc = "await"
    /\ c.op \in {"add", "update", "remove"}
    /\ r.st = "resp"
    /\ known' = KnownAfter(t, p, r)
    /\ req' = [req EXCEPT ![<<t, p>>] = NoReq]
    /\ call' = [call EXCEPT ![t] =
            Returned(c, r.status = 200, ToastsAfter(c, r.status = 200))]
    /\ IF WritesCart(r)
       THEN writeCart(t, c.updated)
       ELSE UNCHANGED <<ls, cartItems, pendingEv>>
    /\ UNCHANGED <<stock, stock0, storeOf, productQuantities, cleared, budget>>
    /\ UNCHANGED apart

\* the continuation of the second invocation of addToCart once its response
\* is there (page.tsx 149-169, then 245-250)
completeAgain(t) ==
    LET c == overlap[t]
        p == c.product
        r == req[<<Again(t), p>>] IN
    /\ c.pc = "await"
    /\ r.st = "resp"
    /\ known' = KnownAfter(t, p, r)
    /\ req' = [req EXCEPT ![<<Again(t), p>>] = NoReq]
    /\ overlap' = [overlap EXCEPT ![t] =
            Returned(c, r.status = 200, ToastsAfter(c, r.status = 200))]
    /\ IF WritesCart(r)
       THEN writeCart(t, c.updated)
       ELSE UNCHANGED <<ls, cartItems, pendingEv>>
    /\ UNCHANGED <<stock, stock0, storeOf, productQuantities, call, cleared, budget>>
    /\ UNCHANGED <<vendors, login, user, featured, dash, totals>>

\* --------------------------------------------------------- page: clearCart
\* a faulty variant, for comparison: each restore carries 1 instead of the quantity held
RestoreRequestsOne(t, items) ==
    [k \in DOMAIN req |->
        IF k[1] = t /\ k[2] \in ItemIds(items) THEN Sent(1) ELSE req[k]]

\* the requests clearCart issues (page.tsx 331-335): one per line item,
\* carrying the quantity the item holds
RestoreRequests(t, items) ==
    [k \in DOMAIN req |->
        IF k[1] = t /\ k[2] \in ItemIds(items)
        THEN Sent(items[FindIndex(items, k[2])].quantity)
        ELSE req[k]]

\* page.tsx 337-340: what follows await Promise.all(restorePromises)
clearFinish(t, c, failed) ==
    /\ call' = [call EXCEPT ![t] =
            [Returned(c, failed = {}, {"success"}) EXCEPT !.failed = failed]]
    /\ writeCart(t, <<>>)

\* clearCart (page.tsx 329-337), up to the await; with an empty cart
\* Promise.all resolves at once
clearCart(t) ==
    LET c == [Started(t, "clear", "-") EXCEPT !.items = cartItems[t]] IN
    /\ call[t].pc # "await"
    /\ StartWithinBudget
    /\ \A p \in Products : WithinCap(p, Held(cartItems[t], p))
    /\ cleared' = TRUE
    /\ IF cartItems[t] = <<>>
       THEN /\ clearFinish(t, c, {})
            /\ req' = req
       ELSE /\ call' = [call EXCEPT ![t] =
                   [c EXCEPT !.pc = "await", !.requested = TRUE]]
            /\ req' = RestoreRequests(t, cartItems[t])
            /\ UNCHANGED <<ls, cartItems, pendingEv>>
    /\ UNCHANGED <<stock, stock0, storeOf, known, productQuantities>>
    /\ UNCHANGED apart

\* one restore promise settles (page.tsx 149-169 and the catch of 332-334);
\* the last one to settle lets clearCart run to its end
clearReceive(t, p) ==
    LET c       == call[t]
        r       == req[<<t, p>>]
        settled == c.settled \cup {p}
        failed  == IF r.status = 200 THEN c.failed ELSE c.failed \cup {p} IN
    /\ c.pc = "await"
    /\ c.op = "clear"
    /\ p \in ItemIds(c.items) \ c.settled
    /\ r.st = "resp"
    /\ known' = KnownAfter(t, p, r)
    /\ req' = [req EXCEPT ![<<t, p>>] = NoReq]
    /\ IF settled = ItemIds(c.items)
       THEN clearFinish(t, c, failed)
       ELSE /\ call' = [call EXCEPT ![t] =
                   [c EXCEPT !.settled = settled, !.failed = failed]]
            /\ UNCHANGED <<ls, cartItems, pendingEv>>
    /\ UNCHANGED <<stock, stock0, storeOf, productQuantities, cleared, budget>>
    /\ UNCHANGED apart

\* ------------------------------------------------------------ vendor login
\* A string, as far as trim() and toLowerCase() tell strings apart: its text
\* in lower case without the surrounding blanks, whether blanks surround it,
\* whether it is written with capitals.
Str(text, padded, caps) == [text |-> text, padded |-> padded, caps |-> caps]

Trim(s) == [s EXCEPT !.padded = FALSE]

ToLowerCase(s) == [s EXCEPT !.caps = FALSE]

\* !identifier: the empty string (a missing field behaves the same)
Falsy(s) == s.text = "" /\ ~s.padded

Emails == {"ama@shop", "kofi@shop", "nobody@shop"}
Phones == {"0244", "0200", "0000"}

\* what a caller may put into the identifier field
Identifiers ==
    {Str("", padded, FALSE) : padded \in BOOLEAN}
    \cup {Str(e, padded, caps) : e \in Emails, padded \in BOOLEAN, caps \in BOOLEAN}
    \cup {Str(n, padded, FALSE) : n \in Phones, padded \in BOOLEAN}

\* ... and into the password field ("" also stands for a missing one)
Passwords == {"", "pw1", "pw2"}

NoVendor == [id |-> "none", email |-> Str("", FALSE, FALSE),
             phoneNumber |-> Str("", FALSE, FALSE), isActive |-> FALSE]

Ama  == [id |-> "v1", email |-> Str("ama@shop", FALSE, FALSE),
         phoneNumber |-> Str("0244", FALSE, FALSE), isActive |-> TRUE]

Kofi == [id |-> "v2", email |-> Str("kofi@shop", FALSE, FALSE),
         phoneNumber |-> Str("0200", FALSE, FALSE), isActive |-> FALSE]

\* the vendor tables considered: e-mail addresses and phone numbers are
\* unique, and no e-mail address is a phone number
VendorTables == {{}, {Ama}, {Ama, Kofi}}

\* localStorage["gomart:user"]: absent, or a text that JSON.parse either
\* rejects or turns into a value whose userType and id are read
NoEntry == [present |-> FALSE, parses |-> FALSE, userType |-> "", id |-> "none"]

\* part_000 28-31: JSON.stringify({...data.data.vendor, userType: 'vendor'})
VendorEntry(vendor) ==
    [present |-> TRUE, parses |-> TRUE, userType |-> "vendor", id |-> vendor.id]

\* dashboard/page.tsx 24-35: the page is not open; a page that opens has
\* mounted = false, loading = true, vendor = null and has requested nothing
Closed == [route |-> "login", pc |-> "none", mounted |-> FALSE, loading |-> TRUE,
           vendor |-> "none", stored |-> NoEntry, requested |-> {},
           statsSet |-> FALSE, toasts |-> {}]

\* nobody has a session entry, no dashboard is open
NoDashboard ==
    /\ user = [x \in ApiClients |-> NoEntry]
    /\ dash = [x \in ApiClients |-> Closed]

NoLogin == [st |-> "none", identifier |-> Str("", FALSE, FALSE), password |-> "",
            status |-> 0, message |-> "", vendor |-> NoVendor]

\* no vendor table, nobody logging in
NoVendorLogin ==
    /\ vendors = {}
    /\ login = [x \in ApiClients |-> NoLogin]

\* POST 250-258: the rows prisma.vendor.findFirst may return
Matches(identifier) ==
    {v \in vendors : \/ v.email = ToLowerCase(Trim(identifier))
                     \/ v.phoneNumber = Trim(identifier)}

\* a faulty variant, for comparison: the password is compared with the one
\* the vendor registered
LoginResponseVerifying(identifier, password, found) ==
    IF Falsy(identifier) \/ password = ""
    THEN [status |-> 400, message |-> "Please provide email/phone and password",
          vendor |-> NoVendor]
    ELSE IF found = NoVendor \/ password # "pw1"
    THEN [status |-> 401, message |-> "Invalid credentials", vendor |-> NoVendor]
    ELSE IF ~found.isActive
    THEN [status |-> 403, message |-> "Your account is not active. Please contact support.",
          vendor |-> NoVendor]
    ELSE [status |-> 200, message |-> "Login successful", vendor |-> found]

\* POST 236-292: status and body, found being the row findFirst returned
LoginResponse(identifier, password, found) ==
    IF Falsy(identifier) \/ password = ""
    THEN [status |-> 400, message |-> "Please provide email/phone and password",
          vendor |-> NoVendor]
    ELSE IF found = NoVendor
    THEN [status |-> 401, message |-> "Invalid credentials", vendor |-> NoVendor]
    ELSE IF ~found.isActive
    THEN [status |-> 403, message |-> "Your account is not active. Please contact support.",
          vendor |-> NoVendor]
    ELSE [status |-> 200, message |-> "Login successful", vendor |-> found]

\* handleSubmit of the login page (part_000 14-23) sends the form
LoginSend(x, identifier, password) ==
    /\ login[x].st = "none"
    /\ login' = [login EXCEPT ![x] =
          [NoLogin EXCEPT !.st = "sent", !.identifier = identifier,
                          !.password = password]]
    /\ UNCHANGED <<storefront, vendors, user, elsewhere>>

\* POST /api/auth/vendor-login (230-292)
POST(x) ==
    LET l == login[x]
        rows == IF Matches(l.identifier) = {} THEN {NoVendor}
                ELSE Matches(l.identifier) IN
    /\ l.st = "sent"
    /\ \E found \in rows :
          LET res == LoginResponse(l.identifier, l.password, found) IN
          login' = [login EXCEPT ![x] =
              [l EXCEPT !.st = "resp", !.status = res.status,
                        !.message = res.message, !.vendor = res.vendor]]
    /\ UNCHANGED <<storefront, vendors, user, elsewhere>>

\* POST 293-303: request.json() or findFirst throws
LoginFault(x) ==
    /\ login[x].st = "sent"
    /\ login' = [login EXCEPT ![x] =
          [@ EXCEPT !.st = "resp", !.status = 500, !.message = "Failed to login"]]
    /\ UNCHANGED <<storefront, vendors, user, elsewhere>>

\* dashboard/page.tsx 24-35: the page as it is created by a navigation to
\* /ui/vendors/dashboard, its effect not yet run
Opened == [Closed EXCEPT !.route = "dashboard", !.pc = "effect"]

\* the caller takes the response (part_000 23-38): a response that is ok
\* stores the session entry and navigates to the dashboard
LoginReceive(x) ==
    /\ login[x].st = "resp"
    /\ login' = [login EXCEPT ![x] = NoLogin]
    /\ IF login[x].status = 200
       THEN /\ user' = [user EXCEPT ![x] = VendorEntry(login[x].vendor)]
            /\ dash' = [dash EXCEPT ![x] = Opened]
       ELSE UNCHANGED <<user, dash>>
    /\ UNCHANGED <<storefront, vendors, featured, overlap, totals>>

\* -------------------------------------------------------- vendor dashboard
\* the entries localStorage["gomart:user"] may hold when the page is opened:
\* none, a text JSON.parse throws on (or null, whose userType cannot be
\* read), or a value with or without a userType
UserTypes == {"vendor", "customer", ""}

Entries ==
    {NoEntry,
     [present |-> TRUE, parses |-> FALSE, userType |-> "", id |-> "none"]}
    \cup {[present |-> TRUE, parses |-> TRUE, userType |-> u, id |-> i] :
             u \in UserTypes, i \in {"v1", "c1"}}

\* the outcomes of a fetch of loadStats: response.ok, a response that is not
\* ok, a rejected promise
Outcomes == {"ok", "failed", "rejected"}

\* a faulty variant, for comparison: every entry that parses is a vendor's
IsVendorAny(entry) == TRUE

\* dashboard/page.tsx 48: user.userType !== "vendor"
IsVendor(entry) == entry.userType = "vendor"

\* dashboard/page.tsx 95-101: the page renders its content, not the spinner
Content(d) == d.mounted /\ ~d.loading

\* a navigation to /ui/vendors/dashboard: a link, the address bar, a reload
open(x) ==
    /\ dash[x] # Opened
    /\ dash' = [dash EXCEPT ![x] = Opened]
    /\ UNCHANGED <<storefront, vendors, login, user, featured, overlap, totals>>

\* the effect of the page (dashboard/page.tsx 37-57), up to the first await
\* of loadStats (59-62)
mountEffect(x) ==
    LET d      == [dash[x] EXCEPT !.mounted = TRUE, !.stored = user[x]]
        stored == user[x] IN
    /\ dash[x].pc = "effect"
    /\ dash' = [dash EXCEPT ![x] =
          IF ~stored.present
          THEN [d EXCEPT !.toasts = {"Please login as a vendor"},
                         !.route = "login", !.pc = "left"]
          ELSE IF ~stored.parses
          THEN [d EXCEPT !.pc = "thrown"]
          ELSE IF ~IsVendor(stored)
          THEN [d EXCEPT !.toasts = {"Access denied. Vendors only."},
                         !.route = "home", !.pc = "left"]
          ELSE [d EXCEPT !.vendor = stored.id, !.pc = "products",
                         !.requested = {"products"}]]
    /\ UNCHANGED <<storefront, vendors, login, user, featured, overlap, totals>>

\* loadStats (dashboard/page.tsx 62-72): the products request has settled
productsResponse(x, outcome) ==
    LET d == dash[x] IN
    /\ d.pc = "products"
    /\ dash' = [dash EXCEPT ![x] =
          IF outcome = "rejected"
          THEN [d EXCEPT !.loading = FALSE, !.pc = "idle"]
          ELSE [d EXCEPT !.requested = @ \cup {"conversations"},
                         !.pc = "conversations"]]
    /\ UNCHANGED <<storefront, vendors, login, user, featured, overlap, totals>>

\* loadStats (dashboard/page.tsx 72-92): the conversations request has settled
conversationsResponse(x, outcome) ==
    LET d == dash[x] IN
    /\ d.pc = "conversations"
    /\ dash' = [dash EXCEPT ![x] =
          [d EXCEPT !.statsSet = (outcome # "rejected"),
                    !.loading = FALSE, !.pc = "idle"]]
    /\ UNCHANGED <<storefront, vendors, login, user, featured, overlap, totals>>

\* ------------------------------------------------------- page: cartTotals
\* page.tsx 118: the subtotal from which shipping is free, and the fee
FreeShippingFrom == 500
ShippingFee      == 20

\* a CartItem (page.tsx 33-40) with its price
PricedItem(p, price, q) ==
    [productId |-> p, price |-> price, quantity |-> q, stockQuantity |-> 0]

\* the prices considered: around nothing and around the free-shipping mark
Prices == {0, 1, FreeShippingFrom \div 2, FreeShippingFrom - 1,
           FreeShippingFrom, FreeShippingFrom + 1}

\* the carts considered: at most one line item per product
PricedCarts ==
    LET ItemsOf(p) == {PricedItem(p, price, q) : price \in Prices, q \in 1..MaxStock}
    IN  {<<>>}
        \cup {<<a>> : a \in ItemsOf("A") \cup ItemsOf("B")}
        \cup {<<a, b>> : a \in ItemsOf("A"), b \in ItemsOf("B")}

\* page.tsx 117: cartItems.reduce((sum, item) => sum + item.price * item.quantity, 0),
\* over the first n items
RECURSIVE ReducePrice(_, _)
ReducePrice(items, n) ==
    IF n = 0 THEN 0
    ELSE ReducePrice(items, n - 1) + items[n].price * items[n].quantity

\* page.tsx 120: cartItems.reduce((sum, item) => sum + item.quantity, 0),
\* over the first n items
RECURSIVE ReduceQuantity(_, _)
ReduceQuantity(items, n) ==
    IF n = 0 THEN 0
    ELSE ReduceQuantity(items, n - 1) + items[n].quantity

\* a faulty variant, for comparison: free shipping only above the mark
ShippingAbove(subtotal) ==
    IF subtotal = 0 THEN 0
    ELSE IF subtotal > FreeShippingFrom THEN 0 ELSE ShippingFee

\* page.tsx 118: subtotal === 0 ? 0 : subtotal >= 500 ? 0 : 20
Shipping(subtotal) ==
    IF subtotal = 0 THEN 0
    ELSE IF subtotal >= FreeShippingFrom THEN 0 ELSE ShippingFee

\* cartTotals (page.tsx 116-122)
cartTotals(items) ==
    LET subtotal   == ReducePrice(items, Len(items))
        shipping   == Shipping(subtotal)
        total      == subtotal + shipping
        totalItems == ReduceQuantity(items, Len(items))
    IN  [subtotal |-> subtotal, shipping |-> shipping, total |-> total,
         totalItems |-> totalItems]

\* a render of the page of tab t: the memo is computed from cartItems
render(t) ==
    /\ totals' = [totals EXCEPT ![t] = cartTotals(cartItems[t])]
    /\ UNCHANGED <<storefront, vendors, login, user, featured, overlap, dash>>

\* ------------------------------------------------------------ specifications
\* the state once every tab has mounted the page on an empty cart; tab t2
\* either shares the browser of t1 or runs in another one (another session)
StorefrontInit(areas, stocks, calls) ==
    /\ budget = calls
    /\ stock0 \in stocks
    /\ stock = stock0
    /\ ls = [s \in Stores |-> <<>>]
    /\ storeOf \in {[t \in Tabs |-> IF t = "t1" THEN "s1" ELSE a] : a \in areas}
    /\ cartItems = [t \in Tabs |-> <<>>]
    /\ known = [t \in Tabs |-> stock0]
    /\ productQuantities = [t \in Tabs |-> [p \in Products |-> 1]]
    /\ pendingEv = [t \in Tabs |-> FALSE]
    /\ call = [t \in Tabs |-> Idle]
    /\ req = [k \in Owners \X Ids |-> NoReq]
    /\ cleared = FALSE
    /\ featured = [t \in Tabs |-> Products]
    /\ overlap = [t \in Tabs |-> Idle]
    /\ totals = [t \in Tabs |-> NoTotals]

InitWith(areas, stocks, calls) ==
    StorefrontInit(areas, stocks, calls) /\ NoVendorLogin /\ NoDashboard

\* the steps of the endpoint on the requests of owner o
Server(o) ==
    \E id \in Ids :
        \/ ServerRead(o, id)
        \/ ServerWrite(o, id)
        \/ ServerFault(o, id)

\* the steps of tab t, its handlers working on the products ps
Page(t, ps) ==
    \/ \E p \in ps, delta \in {-1, 1} : updateQuantity(t, p, delta)
    \/ \E p \in ps, q \in 0..(MaxStock + 1) : setQuantity(t, p, q)
    \/ loadData(t)
    \/ \E p \in ps : addToCart(t, p)
    \/ \E p \in ps, delta \in Deltas : updateCartQuantity(t, p, delta)
    \/ \E p \in ps : removeFromCart(t, p)
    \/ clearCart(t)
    \/ complete(t)
    \/ \E p \in ps : clearReceive(t, p)

\* the steps of another caller of the endpoint
Api(x) ==
    \E id \in Ids :
        \/ \E d \in Deltas : ApiPatch(x, id, d)
        \/ ApiPatchNoQuantity(x, id)
        \/ \E body \in InvalidBodies : ApiPatchInvalid(x, id, body)
        \/ ApiReceive(x, id)

\* Two tabs, in one browser or in two (two sessions), working on the same
\* product while their requests interleave at the endpoint; MaxCalls
\* handlers are started in all.
Init == InitWith({"s1", "s2"},
                 {[p \in Products |-> IF p = "A" THEN a ELSE MaxStock] :
                     a \in 1..MaxStock},
                 MaxCalls)

Next == \E t \in Tabs : Server(t) \/ Page(t, {"A"}) \/ handleStorage(t)

Spec == Init /\ [][Next]_vars

\* Any callers of the endpoint: requests with any id and any delta, each a
\* read step and a write step, interleaved at will.
InitApi == InitWith({"s2"}, [Products -> 0..MaxStock], -1)

NextApi == \E x \in ApiClients : Server(x) \/ Api(x)

SpecApi == InitApi /\ [][NextApi]_vars

\* One client: tab t1 alone, in its own browser; a handler starts only when
\* the previous one has run to completion; no other caller of the endpoint.
InitSeq == InitWith({"s2"},
                    {[p \in Products |-> IF p = "A" THEN MaxStock ELSE MaxStock + 1]},
                    -1)

NextSeq == Server("t1") \/ Page("t1", Products)

SpecSeq == InitSeq /\ [][NextSeq]_vars

\* the worked example: one tab, product A with stock ExampleStock, the
\* selector set to ExampleQuantity, the cart's plus button worth ExampleDelta
InitExample ==
    InitWith({"s2"}, {[p \in Products |-> ExampleStock]}, -1)

NextExample ==
    \/ Server("t1")
    \/ setQuantity("t1", "A", ExampleQuantity)
    \/ addToCart("t1", "A")
    \/ updateCartQuantity("t1", "A", ExampleDelta)
    \/ removeFromCart("t1", "A")
    \/ complete("t1")

SpecExample == InitExample /\ [][NextExample]_vars

\* an abandoned cart: tab t1 of one browser has put q units of A into its
\* cart and takes no further step (tab closed, browser crashed); tab t2 of
\* another browser loaded the page afterwards and goes on
InitAbandoned ==
    /\ budget = -1
    /\ stock0 = [p \in Products |-> MaxStock]
    /\ storeOf = [t \in Tabs |-> IF t = "t1" THEN "s1" ELSE "s2"]
    /\ \E q \in 1..(MaxStock - 1) :
          /\ stock = [stock0 EXCEPT !["A"] = @ - q]
          /\ ls = [s \in Stores |->
                     IF s = "s1" THEN <<CartItem("A", q, stock0["A"] - q)>>
                     ELSE <<>>]
    /\ cartItems = [t \in Tabs |-> ls[storeOf[t]]]
    /\ known = [t \in Tabs |-> stock]
    /\ productQuantities = [t \in Tabs |-> [p \in Products |-> 1]]
    /\ pendingEv = [t \in Tabs |-> FALSE]
    /\ call = [t \in Tabs |-> Idle]
    /\ req = [k \in Owners \X Ids |-> NoReq]
    /\ cleared = FALSE
    /\ featured = [t \in Tabs |-> Products]
    /\ overlap = [t \in Tabs |-> Idle]
    /\ totals = [t \in Tabs |-> NoTotals]
    /\ NoVendorLogin
    /\ NoDashboard

NextAbandoned == Server("t2") \/ Page("t2", {"A"})

SpecAbandoned == InitAbandoned /\ [][NextAbandoned]_vars

\* the vendor login alone: a fixed vendor table, two callers
InitLogin ==
    /\ StorefrontInit({"s2"}, {[p \in Products |-> 0]}, 0)
    /\ vendors \in VendorTables
    /\ login = [x \in ApiClients |-> NoLogin]
    /\ NoDashboard

NextLogin ==
    \E x \in ApiClients :
        \/ \E identifier \in Identifiers, password \in Passwords :
              LoginSend(x, identifier, password)
        \/ POST(x)
        \/ LoginFault(x)
        \/ LoginReceive(x)

SpecLogin == InitLogin /\ [][NextLogin]_vars

\* ===================================================================
\* Claims
\* ===================================================================

\* C1: one client, calls of addToCart, updateCartQuantity and removeFromCart
\* run one after the other with nobody else touching the product: after every
\* call the stock of each product is its initial stock minus the quantity
\* the cart holds for it, and it is not negative.
C1_StockIsInitialMinusHeld ==
    (call["t1"].pc # "await" /\ ~cleared) =>
        \A p \in Products :
            /\ stock[p] = stock0[p] - Held(readCart("t1"), p)
            /\ stock[p] >= 0

\* C2: under any interleaving of the read steps and write steps of PATCH
\* requests from several callers, the stored stock of no product is negative.
C2_StockNeverNegative == \A p \in Products : stock[p] >= 0

\* C2, the case: two requests that lower the same product have both read
\* the stock before either wrote, and the stock has gone down to 0
C2_Witness ==
    \E id \in Products :
        /\ stock[id] = 0
        /\ req[<<"x1", id>>].st = "resp" /\ req[<<"x1", id>>].status = 200
        /\ req[<<"x1", id>>].d < 0
        /\ req[<<"x2", id>>].st = "read" /\ req[<<"x2", id>>].d < 0
        /\ req[<<"x2", id>>].cur > stock[id]

\* C3: two sessions call addToCart with quantity 1 on a product whose stock
\* is 1: at most one of the two calls succeeds.
C3_AtMostOneAddSucceeds ==
    (storeOf["t1"] # storeOf["t2"] /\ stock0["A"] = 1) =>
        ~(\A t \in Tabs : /\ call[t].pc = "done" /\ call[t].op = "add"
                          /\ call[t].product = "A" /\ call[t].ok)

\* C4: a PATCH request with integer delta d on an existing product whose
\* stock is read as c, with c + d >= 0, is not rejected as insufficient; its
\* write persists c + d, and the success response carries previousStock = c,
\* newStock = c + d and change = d.
C4_PatchPersistsSum ==
    [][\A k \in Owners \X Products :
          LET r == req[k]  r2 == req'[k]  id == k[2] IN
          /\ (r.st = "sent" /\ r.body = "int" /\ stock[id] + r.d >= 0 /\ r2.st = "read")
                => r2.cur = stock[id] /\ r2.d = r.d
          /\ (r.st = "sent" /\ r.body = "int" /\ stock[id] + r.d >= 0 /\ r2.st = "resp")
                => r2.kind = "fault"
          /\ (r.st = "read" /\ r2.st = "resp" /\ r2.kind # "fault")
                => /\ r.cur + r.d >= 0
                   /\ stock'[id] = r.cur + r.d
                   /\ r2.status = 200
                   /\ r2.previousStock = r.cur
                   /\ r2.newStock = r.cur + r.d
                   /\ r2.d = r.d
      ]_vars

\* C4, the case: a request that lowers the stock has been answered with
\* success and the stock is what it read, minus one
C4_Witness ==
    \E k \in Owners \X Products :
        /\ req[k].st = "resp" /\ req[k].status = 200 /\ req[k].d = -1
        /\ req[k].previousStock = req[k].cur
        /\ stock[k[2]] = req[k].cur - 1

\* C5: a PATCH request (with an integer quantityChange, the handler not
\* failing) for an unknown product id is answered 404, and one whose delta
\* would make the stock it reads negative is answered 400, insufficient
\* stock; neither step modifies the stock of any product.
C5_NotFoundAndInsufficient ==
    [][\A k \in Owners \X Ids :
          LET r == req[k]  r2 == req'[k]  id == k[2] IN
          (r.st = "sent" /\ r.body = "int" /\ r2 # r /\ r2.kind # "fault") =>
              /\ (id \notin Products) =>
                    r2.st = "resp" /\ r2.status = 404 /\ stock' = stock
              /\ (id \in Products /\ stock[id] + r.d < 0) =>
                    /\ r2.st = "resp" /\ r2.status = 400
                    /\ r2.kind = "insufficient" /\ stock' = stock
      ]_vars

\* C5, the case: one request answered 404 and one answered 400 for
\* insufficient stock, the stock being what it was at the start
C5_Witness ==
    /\ stock = stock0
    /\ \E o \in Owners : req[<<o, UnknownId>>].st = "resp"
                         /\ req[<<o, UnknownId>>].status = 404
    /\ \E k \in Owners \X Products :
          /\ req[k].st = "resp" /\ req[k].status = 400
          /\ req[k].kind = "insufficient" /\ req[k].cur + req[k].d < 0

\* the request of the handler that tab t is suspended on
Awaited(t) == req[<<t, call[t].product>>]

\* tab t's handler of kind op resumes in this step
Resumes(t, ops) ==
    call[t].pc = "await" /\ call[t].op \in ops /\ call'[t].pc = "done"

\* C6: an addToCart whose quantity exceeds the stock the server holds when
\* the request is processed is rejected, by the page's own check or, the
\* page's known stock being stale, by the server; the stock and the cart
\* stay as they are.
C6_AddBeyondStockRejected ==
    [][\A t \in Tabs, p \in Products :
          LET c == call[t]  r == req[<<t, p>>]  r2 == req'[<<t, p>>] IN
          \* refused by the page: known stock too small, no request
          /\ (c.pc # "await" /\ call'[t].op = "add" /\ call'[t].product = p
              /\ call'[t].pc = "done" /\ call'[t] # c)
                => /\ ~call'[t].requested /\ r2 = r
                   /\ stock' = stock /\ ls' = ls /\ cartItems' = cartItems
          \* processed by the server: quantity above the stock it reads
          /\ (c.pc = "await" /\ c.op = "add" /\ c.product = p
              /\ r.st = "sent" /\ r2 # r /\ -r.d > stock[p])
                => /\ r2.st = "resp" /\ r2.status \in {400, 500}
                   /\ stock' = stock /\ ls' = ls /\ cartItems' = cartItems
          \* the handler resumes on a rejection
          /\ (Resumes(t, {"add"}) /\ c.product = p /\ r.status # 200)
                => /\ ~call'[t].ok
                   /\ stock' = stock /\ ls' = ls /\ cartItems' = cartItems
          \* no success without enough stock at the server
          /\ (Resumes(t, {"add"}) /\ c.product = p /\ r.status = 200)
                => r.previousStock >= -r.d
      ]_vars

\* C6, the case: the page's known stock is stale (it allows the quantity,
\* the server's stock does not) and the server has rejected the request
C6_Witness ==
    \E t \in Tabs :
        /\ call[t].pc = "await" /\ call[t].op = "add"
        /\ Awaited(t).st = "resp" /\ Awaited(t).status = 400
        /\ known[t][call[t].product] >= -Awaited(t).d
        /\ -Awaited(t).d > stock[call[t].product]
        /\ readCart(t) = call[t].cartBefore

\* C7: when the stock adjustment of addToCart, updateCartQuantity or
\* removeFromCart fails, the handler leaves the persisted cart and the
\* in-memory cart as they are and shows an error toast; these handlers write
\* the cart only on a successful response.
C7_FailureLeavesCart ==
    [][\A t \in Tabs :
          /\ (Resumes(t, {"add", "update", "remove"}) /\ Awaited(t).status # 200)
                => /\ ls' = ls /\ cartItems' = cartItems
                   /\ "error" \in call'[t].toasts
                   /\ ~call'[t].ok
          /\ (Resumes(t, {"add", "update", "remove"}) /\ ls' # ls)
                => Awaited(t).st = "resp" /\ Awaited(t).status = 200
          \* any other change of the persisted cart is clearCart emptying it
          /\ (ls'[storeOf[t]] # ls[storeOf[t]])
                => \/ \E u \in Tabs :
                         /\ storeOf[u] = storeOf[t]
                         /\ Resumes(u, {"add", "update", "remove"})
                         /\ Awaited(u).status = 200
                   \/ /\ ls'[storeOf[t]] = <<>>
                      /\ \E u \in Tabs : /\ storeOf[u] = storeOf[t]
                                         /\ call'[u].pc = "done"
                                         /\ call'[u].op = "clear"
      ]_vars

\* C7, the case: an updateCartQuantity whose request failed has returned,
\* the cart still holding the line item as it was
C7_Witness ==
    \E t \in Tabs :
        /\ call[t].pc = "done" /\ call[t].op = "update"
        /\ call[t].requested /\ ~call[t].ok
        /\ call[t].toasts = {"error"}
        /\ cartItems[t] = readCart(t) /\ cartItems[t] # <<>>

\* C8: a successful updateCartQuantity changes the stock of the product by
\* exactly minus the change of the line item's quantity, the decrease
\* requested at quantity 1 included (quantity and stock both stay).
C8_UpdateStockMatchesQuantity ==
    [][(Resumes("t1", {"update"}) /\ Awaited("t1").status = 200) =>
          LET c == call["t1"]
              p == c.product
              oldQuantity == Held(c.cartBefore, p)
              newQuantity == Held(readCart("t1")', p) IN
          stock'[p] - c.stockBefore[p] = -(newQuantity - oldQuantity)
      ]_vars

\* the line items of a cart other than the one of product p
Others(items, p) == SelectSeq(items, LAMBDA i : i.productId # p)

\* C9: a successful removeFromCart of a line item of quantity q raises the
\* stock of its product by exactly q and removes the item from the cart; the
\* other line items and the stock of the other products stay as they were
\* (one page, its calls one after the other).
C9_RemoveRestoresQuantity ==
    [][(Resumes("t1", {"remove"}) /\ Awaited("t1").status = 200) =>
          LET c == call["t1"]
              p == c.product
              q == Held(c.cartBefore, p) IN
          /\ q > 0
          /\ stock'[p] = c.stockBefore[p] + q
          /\ \A o \in Products \ {p} : stock'[o] = c.stockBefore[o]
          /\ p \notin ItemIds(readCart("t1")')
          /\ readCart("t1")' = Others(c.cartBefore, p)
          /\ cartItems'["t1"] = readCart("t1")'
          /\ call'["t1"].ok
      ]_vars

\* C9, the case: a removeFromCart has succeeded, another line item is
\* still in the cart, the removed one is not
C9_Witness ==
    /\ call["t1"].pc = "done" /\ call["t1"].op = "remove" /\ call["t1"].ok
    /\ call["t1"].product = "A"
    /\ ItemIds(readCart("t1")) = {"B"}
    /\ Held(readCart("t1"), "B") = 2
    /\ stock["A"] = stock0["A"]

\* C10: clearCart issues one restore request for each line item, carrying
\* that item's quantity, and none for any other product; a restore that fails
\* does not keep the others from being processed: every request stays in
\* flight until it settles, and when clearCart ends each item whose restore
\* did not fail has its stock raised by its quantity.
C10_ClearRestoresEachItem ==
    [][LET c == call["t1"]  c2 == call'["t1"] IN
       /\ (c.pc # "await" /\ c2.pc = "await" /\ c2.op = "clear") =>
             \A id \in Ids :
                req'[<<"t1", id>>] =
                    IF id \in ItemIds(cartItems["t1"])
                    THEN Sent(Held(cartItems["t1"], id))
                    ELSE NoReq
       /\ (c2.pc = "await" /\ c2.op = "clear") =>
             \A p \in ItemIds(c2.items) \ c2.settled :
                req'[<<"t1", p>>].st # "none"
       /\ Resumes("t1", {"clear"}) =>
             /\ c.settled \cup {p \in Products : req'[<<"t1", p>>] # req[<<"t1", p>>]}
                    = ItemIds(c.items)
             /\ \A p \in ItemIds(c.items) :
                   stock'[p] = IF p \in c2.failed
                               THEN c.stockBefore[p]
                               ELSE c.stockBefore[p] + Held(c.items, p)
      ]_vars

\* C10, the case: the cart held 2 of A and 3 of B; the restore of A failed,
\* the one of B went through and raised B's stock by 3
C10_Witness ==
    /\ call["t1"].pc = "done" /\ call["t1"].op = "clear"
    /\ call["t1"].failed = {"A"}
    /\ stock["A"] = stock0["A"] - 2
    /\ stock["B"] = stock0["B"] /\ stock0["B"] >= 3
    /\ readCart("t1") = <<>>

\* C11: whenever clearCart ends and the cart is persisted as empty, the
\* stock of every product that had a line item has been raised by exactly
\* the quantity that line item held.
C11_ClearedCartIsRestored ==
    [][(Resumes("t1", {"clear"}) /\ readCart("t1")' = <<>>) =>
          \A p \in ItemIds(call["t1"].items) :
             stock'[p] = call["t1"].stockBefore[p] + Held(call["t1"].items, p)
      ]_vars

\* C12: from stock ExampleStock (10) and an empty cart, a successful add of
\* ExampleQuantity (3) leaves stock 7 and a line item of 3; from there a
\* successful updateCartQuantity by ExampleDelta (+2) leaves stock 5 and a
\* line item of 5; from there a successful removeFromCart leaves stock 10
\* and no line item.
C12_WorkedExample ==
    [][LET c  == call["t1"]
           S  == ExampleStock
           Q  == ExampleQuantity
           D  == ExampleDelta
           ok == Awaited("t1").status = 200
           cart2 == readCart("t1")' IN
       /\ (Resumes("t1", {"add"}) /\ ok /\ c.stockBefore["A"] = S
           /\ c.cartBefore = <<>> /\ c.quantityChange = -Q)
             => stock'["A"] = S - Q /\ Held(cart2, "A") = Q /\ Len(cart2) = 1
       /\ (Resumes("t1", {"update"}) /\ ok /\ c.stockBefore["A"] = S - Q
           /\ Held(c.cartBefore, "A") = Q /\ c.newQuantity = Q + D)
             => stock'["A"] = S - Q - D /\ Held(cart2, "A") = Q + D
                /\ Len(cart2) = 1
       /\ (Resumes("t1", {"remove"}) /\ ok /\ c.stockBefore["A"] = S - Q - D
           /\ Held(c.cartBefore, "A") = Q + D)
             => stock'["A"] = S /\ cart2 = <<>>
      ]_vars

\* C12, the case: the line item of 5 taken from a stock of 10 is being
\* removed, the restore has been answered and the stock is 10 again
C12_Witness ==
    /\ call["t1"].pc = "await" /\ call["t1"].op = "remove"
    /\ Awaited("t1").st = "resp" /\ Awaited("t1").status = 200
    /\ call["t1"].stockBefore["A"] = ExampleStock - ExampleQuantity - ExampleDelta
    /\ Held(call["t1"].cartBefore, "A") = ExampleQuantity + ExampleDelta
    /\ call["t1"].cartBefore[1].stockQuantity = call["t1"].stockBefore["A"]
    /\ stock["A"] = ExampleStock

\* C13: two PATCH requests on one product can both read the stock before
\* either writes; nothing makes the second write notice the first.  When a
\* request that read c writes after another request that also read c has
\* written (with a change other than 0) and been answered with success, the
\* write still succeeds and stores c + d: the stock is not the initial value
\* plus both changes, one update is lost.
C13_LostUpdate ==
    [][\A o \in Owners, o2 \in Owners, id \in Products :
          LET r == req[<<o, id>>]  r2 == req'[<<o, id>>]  q == req[<<o2, id>>] IN
          (/\ o # o2
           /\ r.st = "read" /\ r2.st = "resp" /\ r2.kind # "fault"
           /\ q.st = "resp" /\ q.status = 200 /\ q.d # 0
           /\ q.previousStock = r.cur /\ stock[id] = q.newStock)
             => /\ r2.status = 200
                /\ stock'[id] = r.cur + r.d
                /\ stock'[id] # r.cur + r.d + q.d
                /\ req'[<<o2, id>>] = q
      ]_vars

\* C13, the case: both requests read the same stock, both have been answered
\* with success, and the stock is short of one of the two changes
C13_Witness ==
    \E id \in Products :
        LET a == req[<<"x1", id>>]  b == req[<<"x2", id>>] IN
        /\ a.st = "resp" /\ a.status = 200 /\ a.d # 0
        /\ b.st = "resp" /\ b.status = 200 /\ b.d # 0
        /\ a.previousStock = stock0[id] /\ b.previousStock = stock0[id]
        /\ stock[id] = b.newStock
        /\ stock[id] # stock0[id] + a.d + b.d

\* C14: addToCart issues no stock request when the selected quantity exceeds
\* the stock the page knows, or that stock is 0 or less; when the quantity is
\* between 1 and the known stock it issues a decrement of exactly that
\* quantity, also when the product already has a line item.
C14_AddIssuesDecrement ==
    [][\A p \in Products :
          LET quantity == productQuantities["t1"][p]
              k        == <<"t1", p>> IN
          (/\ call["t1"].pc # "await"
           /\ call'["t1"] # call["t1"]
           /\ call'["t1"].op = "add" /\ call'["t1"].product = p)
             => IF quantity > known["t1"][p] \/ known["t1"][p] <= 0
                THEN req' = req
                ELSE req' = [req EXCEPT ![k] = Sent(-quantity)]
      ]_vars

\* C15: the stock changes only in the write of a PATCH request; and with
\* the units of an abandoned cart out of reach, the stock plus the
\* quantity held by the cart still in use stays below the catalog-time stock
\* (compared whenever no handler of that cart is suspended).
C15_AbandonedUnitsLeak ==
    [][/\ (stock' # stock) =>
             \E o \in Owners, id \in Products :
                /\ req[<<o, id>>].st = "read"
                /\ req'[<<o, id>>].st = "resp" /\ req'[<<o, id>>].status = 200
                /\ stock' = [stock EXCEPT
                               ![id] = req[<<o, id>>].cur + req[<<o, id>>].d]
       /\ (call'["t2"].pc # "await") =>
             stock'["A"] + Held(readCart("t2")', "A") < stock0["A"]
      ]_vars

\* C16: a tab to which every storage event for the cart key has been
\* delivered holds, as its in-memory cartItems, the cart persisted under
\* that key; so once the events of a write have reached every tab, all tabs
\* agree with the persisted cart.
C16_TabsFollowPersistedCart ==
    \A t \in Tabs : ~pendingEv[t] => cartItems[t] = readCart(t)

\* C16, the case: t1 has written a line item, the tab sharing its storage
\* area has run no handler of its own, the event has been delivered to it,
\* and it shows the line item
C16_Witness ==
    /\ storeOf["t2"] = storeOf["t1"]
    /\ call["t1"].pc = "done" /\ call["t1"].op = "add" /\ call["t1"].ok
    /\ call["t2"] = Idle /\ productQuantities["t2"]["A"] # 1
    /\ \A t \in Tabs : ~pendingEv[t]
    /\ readCart("t1") # <<>>
    /\ cartItems["t2"] = readCart("t1")

\* C17: every failed stock adjustment issued by addToCart,
\* updateCartQuantity, removeFromCart or clearCart is followed by an error
\* toast of the handler that issued it.
C17_FailureShowsErrorToast ==
    [][/\ (Resumes("t1", {"add", "update", "remove"})
           /\ Awaited("t1").status # 200)
             => "error" \in call'["t1"].toasts
       /\ (Resumes("t1", {"clear"}) /\ call'["t1"].failed # {})
             => "error" \in call'["t1"].toasts
      ]_vars

\* the PATCH requests tab t puts on the wire in this step
Issued(t) ==
    {id \in Ids : req'[<<t, id>>] # req[<<t, id>>] /\ req'[<<t, id>>].st = "sent"}

\* C18: no stock adjustment is sent a second time.  A handler issues its
\* requests when it is invoked and none afterwards, whatever the responses:
\* addToCart, updateCartQuantity and removeFromCart at most one, for their
\* product; clearCart one per line item.
C18_NoRetry ==
    [][LET c == call["t1"]  c2 == call'["t1"] IN
       /\ (c.pc = "await") => Issued("t1") = {}
       /\ (c.pc # "await") =>
             Issued("t1") =
                IF c2.pc = "await" /\ c2.op \in {"add", "update", "remove"}
                THEN {c2.product}
                ELSE IF c2.pc = "await" /\ c2.op = "clear"
                THEN ItemIds(cartItems["t1"])
                ELSE {}
       /\ (c.pc = "await" /\ c2.pc = "done") =>
             \A id \in Ids : req'[<<"t1", id>>] = NoReq
      ]_vars

\* C18, the case: a removeFromCart whose request failed has returned, the
\* cart still holds its two line items and nothing is on the wire
C18_Witness ==
    /\ call["t1"].pc = "done" /\ call["t1"].op = "remove"
    /\ call["t1"].requested /\ ~call["t1"].ok
    /\ \A id \in Ids : req[<<"t1", id>>] = NoReq
    /\ Len(readCart("t1")) = 2

\* C20: a PATCH request for an existing product whose quantityChange is
\* missing (undefined or null) or is present and no integer is answered 400
\* as a validation error (the handler not failing), and no step of such a
\* request modifies the stock.
C20_InvalidQuantityRejected ==
    [][\A k \in Owners \X Products :
          LET r == req[k]  r2 == req'[k] IN
          (r.body # "int" /\ r.st \in {"sent", "read"} /\ r2 # r
           /\ r2.kind # "fault")
             => /\ r2.st = "resp" /\ r2.status = 400 /\ r2.kind = "validation"
                /\ stock' = stock
      ]_vars

\* the vendor named by an identifier: its e-mail address in any case, or its
\* phone number, blanks around it ignored
Names(identifier, v) ==
    \/ v.email = ToLowerCase(Trim(identifier))
    \/ v.phoneNumber = Trim(identifier)

\* C19: for one identifier and one vendor table, two login requests with
\* non-empty passwords get the same status and body (the handler not
\* failing); a request that names an active vendor is answered with success
\* and that vendor's data whatever non-empty password it carries.
C19_PasswordIgnored ==
    /\ \A x \in ApiClients, y \in ApiClients :
          (/\ login[x].st = "resp" /\ login[y].st = "resp"
           /\ login[x].identifier = login[y].identifier
           /\ login[x].password # "" /\ login[y].password # ""
           /\ login[x].status # 500 /\ login[y].status # 500)
             => /\ login[x].status = login[y].status
                /\ login[x].message = login[y].message
                /\ login[x].vendor = login[y].vendor
    /\ \A x \in ApiClients, v \in vendors :
          (/\ login[x].st = "resp" /\ login[x].status # 500
           /\ login[x].password # ""
           /\ v.isActive /\ Names(login[x].identifier, v))
             => login[x].status = 200 /\ login[x].vendor = v

\* C19, the case: the same identifier with two different passwords, both
\* answered with success and the same vendor
C19_Witness ==
    /\ login["x1"].st = "resp" /\ login["x2"].st = "resp"
    /\ login["x1"].identifier = login["x2"].identifier
    /\ login["x1"].password = "pw1" /\ login["x2"].password = "pw2"
    /\ login["x1"].status = 200 /\ login["x2"].status = 200
    /\ login["x1"].vendor = Ama /\ login["x2"].vendor = Ama
    /\ login["x1"].identifier.caps /\ login["x1"].identifier.padded


\* C22: every line item of the persisted cart has a quantity of at least
\* one, whatever handlers ran and whatever the deltas and selector inputs.
C22_QuantityAtLeastOne ==
    \A s \in Stores : \A i \in 1..Len(ls[s]) : ls[s][i].quantity >= 1

\* a decrease of a line item that held one unit has completed: the handler
\* returned after a 200, the item still holds one unit, and the stock has
\* received the unit the decrease asked to give back
C22_Witness ==
    LET p == call["t1"].product IN
    /\ call["t1"].pc = "done"
    /\ call["t1"].op = "update"
    /\ call["t1"].ok
    /\ Held(readCart("t1"), p) = 1
    /\ stock[p] = stock0[p]

\* C25: addToCart shows its success toast only in a call whose decrement
\* succeeded and whose line item is in the persisted cart; a call whose
\* decrement failed shows none.
C25_SuccessToastOnlyOnSuccess ==
    [][Resumes("t1", {"add"}) =>
         LET c2 == call'["t1"] IN
         /\ (Awaited("t1").status # 200) => "success" \notin c2.toasts
         /\ ("success" \in c2.toasts) =>
               /\ Awaited("t1").status = 200
               /\ FindIndex(ls'[storeOf["t1"]], c2.product) > 0
      ]_vars

\* C23: after a successful addToCart or updateCartQuantity of a client
\* acting alone, the stockQuantity of the line item is the stock of the
\* server and the stock the client knows.
C23_ItemStockMatchesServer ==
    [][(Resumes("t1", {"add", "update"}) /\ Awaited("t1").status = 200) =>
         LET p     == call["t1"].product
             items == ls'[storeOf["t1"]]
             idx   == FindIndex(items, p)
         IN  /\ idx > 0
             /\ items[idx].stockQuantity = stock'[p]
             /\ items[idx].stockQuantity = known'["t1"][p]
      ]_vars


\* C26: the persisted cart holds at most one line item per productId,
\* whatever handlers the tabs that share it have run and however their
\* steps interleave.
C26_OneItemPerProduct ==
    \A s \in Stores : \A i, j \in 1..Len(ls[s]) :
        ls[s][i].productId = ls[s][j].productId => i = j

\* both tabs of one storage area have added product A with success, and
\* the cart they share holds one line item for it
C26_Witness ==
    /\ storeOf["t2"] = "s1"
    /\ \A t \in Tabs : /\ call[t].pc = "done"
                       /\ call[t].op = "add"
                       /\ call[t].product = "A"
                       /\ call[t].ok
    /\ Len(ls["s1"]) = 1
    /\ ls["s1"][1].productId = "A"


\* Two tabs of one browser: they share the storage area and each works on
\* any product; handlers of the two tabs overlap at will.
InitShared == InitWith({"s1"}, {[p \in Products |-> MaxStock]}, MaxCalls)

NextShared == \E t \in Tabs : Server(t) \/ Page(t, Products) \/ handleStorage(t)

SpecShared == InitShared /\ [][NextShared]_vars

\* C21: when two tabs that share the persisted cart each add a different
\* product and both decrements succeed, the persisted cart holds both line
\* items, also when the two calls overlap.
C21_BothItemsPersisted ==
    [][\A t, u \in Tabs :
         (/\ Resumes(t, {"add"})
          /\ Awaited(t).status = 200
          /\ call[u].pc = "done"
          /\ call[u].op = "add"
          /\ call[u].ok
          /\ call[u].product # call[t].product)
         => {call[t].product, call[u].product} \subseteq ItemIds(ls'["s1"])
      ]_vars


\* One tab whose cart, persisted earlier, holds q units of product B, while
\* the list of featured products the page has loaded holds product A only.
InitUnlisted ==
    /\ budget = -1
    /\ stock0 = [p \in Products |-> MaxStock]
    /\ storeOf = [t \in Tabs |-> IF t = "t1" THEN "s1" ELSE "s2"]
    /\ \E q \in 1..MaxStock :
          /\ stock = [stock0 EXCEPT !["B"] = @ - q]
          /\ ls = [s \in Stores |->
                     IF s = "s1" THEN <<CartItem("B", q, stock0["B"] - q)>>
                     ELSE <<>>]
    /\ cartItems = [t \in Tabs |-> ls[storeOf[t]]]
    /\ known = [t \in Tabs |-> stock]
    /\ productQuantities = [t \in Tabs |-> [p \in Products |-> 1]]
    /\ pendingEv = [t \in Tabs |-> FALSE]
    /\ call = [t \in Tabs |-> Idle]
    /\ req = [k \in Owners \X Ids |-> NoReq]
    /\ cleared = FALSE
    /\ featured = [t \in Tabs |-> IF t = "t1" THEN {"A"} ELSE Products]
    /\ overlap = [t \in Tabs |-> Idle]
    /\ totals = [t \in Tabs |-> NoTotals]
    /\ NoVendorLogin
    /\ NoDashboard

NextUnlisted ==
    \/ Server("t1")
    \/ Page("t1", Products)
    \/ \E fetched \in BOOLEAN : refreshProduct("t1", fetched)

SpecUnlisted == InitUnlisted /\ [][NextUnlisted]_vars

\* C27: updateCartQuantity for a line item whose product is not in the
\* featured products the page has loaded sends no stock adjustment, leaves
\* the persisted cart, the tab's cart and the stock as they were, and ends
\* with the error toast 'Product not found', whether or not the request of
\* refreshProduct was answered with the product.
C27_UnlistedProductNotFound ==
    [][LET c == call["t1"]  c2 == call'["t1"] IN
       /\ (c.pc # "await" /\ c2 # c /\ c2.op = "update")
             => c2.product \in featured["t1"]
       /\ (c.pc # "await" /\ c2.pc = "await" /\ c2.op = "refresh")
             => /\ c2.product \notin featured["t1"]
                /\ Issued("t1") = {}
                /\ UNCHANGED <<ls, cartItems, stock>>
       /\ (c.pc = "await" /\ c.op = "refresh" /\ c2 # c)
             => /\ c2.pc = "done"
                /\ c2.op = "update"
                /\ ~c2.requested
                /\ c2.toasts = {"error"}
                /\ c2.message = "Product not found"
                /\ Issued("t1") = {}
                /\ UNCHANGED <<ls, cartItems, stock, known, featured>>
       /\ (c.pc = "await" /\ c.op = "refresh")
             => \A id \in Ids : req["t1", id].st = "none"
      ]_vars

\* the handler has ended with 'Product not found' although the product was
\* fetched; the cart still holds the line item
C27_Witness ==
    /\ call["t1"].pc = "done"
    /\ call["t1"].op = "update"
    /\ call["t1"].product = "B"
    /\ call["t1"].message = "Product not found"
    /\ call["t1"].fetched
    /\ Held(readCart("t1"), "B") > 0
    /\ "B" \notin featured["t1"]


\* One tab on product A: the add button is clicked again while the first
\* invocation of addToCart is still suspended in its request.
InitOverlap ==
    InitWith({"s2"},
             {[p \in Products |-> IF p = "A" THEN a ELSE MaxStock] : a \in 1..MaxStock},
             MaxCalls)

NextOverlap ==
    \/ Server("t1")
    \/ Server(Again("t1"))
    \/ \E delta \in {-1, 1} : updateQuantity("t1", "A", delta)
    \/ \E q \in 0..(MaxStock + 1) : setQuantity("t1", "A", q)
    \/ addToCart("t1", "A")
    \/ complete("t1")
    \/ addToCartAgain("t1", "A")
    \/ completeAgain("t1")

SpecOverlap == InitOverlap /\ [][NextOverlap]_vars

\* C24: when two invocations of addToCart for one product overlap in a tab
\* and both decrements succeed, the quantity the persisted cart holds for
\* the product is the total taken from the stock.
C24_OverlappingAddsHoldDecrement ==
    LET c == call["t1"]
        o == overlap["t1"] IN
    (/\ c.pc = "done" /\ c.op = "add" /\ c.ok
     /\ o.pc = "done" /\ o.op = "add" /\ o.ok
     /\ o.product = c.product
     /\ \A k \in Owners \X Ids : req[k].st = "none")
    => Held(readCart("t1"), c.product) = stock0[c.product] - stock[c.product]


\* The vendor pages of one browser: whatever session entry it holds, the
\* login page and the dashboard, opened at will.
InitDashboard ==
    /\ StorefrontInit({"s2"}, {[p \in Products |-> 0]}, 0)
    /\ vendors \in VendorTables
    /\ login = [x \in ApiClients |-> NoLogin]
    /\ user \in {[x \in ApiClients |-> IF x = "x1" THEN e ELSE NoEntry] :
                   e \in Entries}
    /\ dash = [x \in ApiClients |-> Closed]

NextDashboard ==
    \/ \E identifier \in Identifiers, password \in Passwords :
          LoginSend("x1", identifier, password)
    \/ POST("x1")
    \/ LoginFault("x1")
    \/ LoginReceive("x1")
    \/ open("x1")
    \/ mountEffect("x1")
    \/ \E outcome \in Outcomes : productsResponse("x1", outcome)
    \/ \E outcome \in Outcomes : conversationsResponse("x1", outcome)

SpecDashboard == InitDashboard /\ [][NextDashboard]_vars

\* C28: the vendor dashboard requests statistics and renders its content
\* only when localStorage holds a 'gomart:user' entry whose userType is
\* 'vendor'.  Without an entry its effect redirects to the vendor login,
\* with an entry of any other userType to the home page; in both cases no
\* statistics request is made and the content is never rendered.
C28_DashboardVendorsOnly ==
    /\ [](LET d == dash["x1"]  e == user["x1"] IN
          /\ (d.requested # {} \/ d.statsSet \/ Content(d))
                => (e.present /\ e.parses /\ e.userType = "vendor"
                    /\ d.stored.userType = "vendor")
          /\ (d.pc = "left")
                => (d.requested = {} /\ ~d.statsSet /\ ~Content(d)))
    /\ [][LET d == dash["x1"]  d2 == dash'["x1"]  e == user["x1"] IN
          (d.pc = "effect" /\ d2.pc # "effect") =>
             /\ (~e.present) =>
                   (d2.route = "login" /\ d2.pc = "left" /\ d2.requested = {})
             /\ (e.present /\ e.parses /\ e.userType # "vendor") =>
                   (d2.route = "home" /\ d2.pc = "left" /\ d2.requested = {})
             /\ (e.present /\ e.parses /\ e.userType = "vendor") =>
                   (d2.route = "dashboard" /\ d2.requested = {"products"})
         ]_vars

\* the dashboard was opened with the entry of a customer: it has redirected
\* to the home page, has requested nothing and shows the spinner
C28_Witness ==
    LET d == dash["x1"] IN
    /\ d.pc = "left"
    /\ d.route = "home"
    /\ d.mounted
    /\ d.stored.present
    /\ d.stored.userType = "customer"
    /\ d.requested = {}
    /\ ~Content(d)


\* The totals of a cart: one tab whose cart is any of the carts considered,
\* rendered.
InitTotals ==
    /\ budget = 0
    /\ stock0 = [p \in Products |-> MaxStock]
    /\ stock = stock0
    /\ storeOf = [t \in Tabs |-> IF t = "t1" THEN "s1" ELSE "s2"]
    /\ \E cart \in PricedCarts :
          ls = [s \in Stores |-> IF s = "s1" THEN cart ELSE <<>>]
    /\ cartItems = [t \in Tabs |-> ls[storeOf[t]]]
    /\ known = [t \in Tabs |-> stock]
    /\ productQuantities = [t \in Tabs |-> [p \in Products |-> 1]]
    /\ pendingEv = [t \in Tabs |-> FALSE]
    /\ call = [t \in Tabs |-> Idle]
    /\ req = [k \in Owners \X Ids |-> NoReq]
    /\ cleared = FALSE
    /\ featured = [t \in Tabs |-> Products]
    /\ overlap = [t \in Tabs |-> Idle]
    /\ totals = [t \in Tabs |-> NoTotals]
    /\ NoVendorLogin
    /\ NoDashboard

NextTotals == render("t1")

SpecTotals == InitTotals /\ [][NextTotals]_vars

\* the sum of the values of a function f over the set S of its arguments
RECURSIVE SumOver(_, _)
SumOver(f, S) ==
    IF S = {} THEN 0
    ELSE LET i == CHOOSE j \in S : TRUE IN f[i] + SumOver(f, S \ {i})

\* C29: for a cart with integer prices, cartTotals gives subtotal = the sum
\* of price * quantity over the line items, shipping = 0 when the subtotal
\* is 0 or at least 500 and 20 otherwise, total = subtotal + shipping, and
\* totalItems = the sum of the quantities.
C29_CartTotals ==
    [][totals' # totals =>
         LET items == cartItems["t1"]
             Cost == [i \in DOMAIN items |-> items[i].price * items[i].quantity]
             Pieces == [i \in DOMAIN items |-> items[i].quantity]
             r == totals'["t1"] IN
         /\ r.subtotal = SumOver(Cost, DOMAIN items)
         /\ r.shipping = IF r.subtotal = 0 \/ r.subtotal >= 500 THEN 0 ELSE 20
         /\ r.total = r.subtotal + r.shipping
         /\ r.totalItems = SumOver(Pieces, DOMAIN items)
      ]_vars

\* a cart of two line items whose subtotal is exactly 500 has been
\* rendered: shipping is free
C29_Witness ==
    /\ Len(cartItems["t1"]) = 2
    /\ totals["t1"].subtotal = 500
    /\ totals["t1"].shipping = 0
    /\ totals["t1"].total = 500
    /\ totals["t1"].totalItems >= 2

====
